---- MODULE Spec2Model ----
(***************************************************************************)
(* Model of src/smart-scraper.js: the text extraction engine               *)
(* (isTheatreLine, extractShowtimes, improveTheatreName,                    *)
(* extractTheatresAndShowtimes, extractTheatresAlternative) and the part    *)
(* of analyzeMoviePage that calls it.                                       *)
(*                                                                         *)
(* Strings are TLA+ strings; positions in them are 1-based, while the      *)
(* variable timeRegexLastIndex keeps the 0-based value JavaScript stores  *)
(* in THEATRE_PATTERNS.TIME_REGEX.lastIndex.  A JavaScript array is a       *)
(* sequence, a Map is a sequence of entries in insertion order.             *)
(***************************************************************************)
EXTENDS Integers, Sequences, FiniteSets, TLC

VARIABLES
  timeRegexLastIndex,  \* THEATRE_PATTERNS.TIME_REGEX.lastIndex, shared by all calls
  call,                \* the latest extraction call: function, argument, results
  page,                \* the run of analyzeMoviePage: its position and its locals
  proc,                \* the running execution of processMovie or processAllMovies
  timers,              \* the pending setTimeout callbacks of processMovie or processAllMovies
  lastStatus,          \* smartScraper: lastStatus.currentStatus
  lastStatuses,        \* monitorAllMovies: the Map lastStatuses, by movie
  browsers,            \* the browsers launched and not closed
  sent,                \* the arguments of the latest sendTelegramNotification call
  cycle                \* history of the running cycle: lastStatuses at its start, outcomes

monitorVars == <<proc, timers, lastStatus, lastStatuses, browsers, sent, cycle>>

vars == <<timeRegexLastIndex, call, page, monitorVars>>


(***************************************************************************)
(* String primitives (the methods of String.prototype that the code uses). *)
(***************************************************************************)
Char(s, i) == IF i >= 1 /\ i <= Len(s) THEN SubSeq(s, i, i) ELSE ""

DigitChars == {"0", "1", "2", "3", "4", "5", "6", "7", "8", "9"}

UpperChars == "ABCDEFGHIJKLMNOPQRSTUVWXYZ"

LowerChars == "abcdefghijklmnopqrstuvwxyz"

UpperSet == {Char(UpperChars, i) : i \in 1..26}

LowerSet == {Char(LowerChars, i) : i \in 1..26}

\* \s of a JavaScript regular expression and the characters trim() removes,
\* restricted to the whitespace the modelled texts contain.
SpaceChars == {" ", "\t"}

\* \w of a JavaScript regular expression.
WordChars == UpperSet \cup LowerSet \cup DigitChars \cup {"_"}

LowerChar(c) ==
  IF c \in UpperSet
  THEN Char(LowerChars, CHOOSE i \in 1..26 : Char(UpperChars, i) = c)
  ELSE c

\* the characters i .. j of s in lower case, by halves
RECURSIVE LowerFrom(_, _, _)
LowerFrom(s, i, j) ==
  IF i > j THEN ""
  ELSE IF i = j THEN LowerChar(Char(s, i))
  ELSE LowerFrom(s, i, (i + j) \div 2) \o LowerFrom(s, (i + j) \div 2 + 1, j)

\* String.prototype.toLowerCase
toLowerCase(s) == LowerFrom(s, 1, Len(s))

\* s.substring(i - 1, j) with 1-based inclusive bounds i..j
Sub(s, i, j) == IF i > j THEN "" ELSE SubSeq(s, i, j)

\* whether w occurs in s at the 1-based position i
At(s, i, w) == i >= 1 /\ i + Len(w) - 1 <= Len(s) /\ SubSeq(s, i, i + Len(w) - 1) = w

\* String.prototype.includes
includes(s, w) == \E i \in 1..(Len(s) - Len(w) + 1) : At(s, i, w)

\* String.prototype.indexOf as a 1-based position, 0 when absent
indexOf(s, w) ==
  IF includes(s, w)
  THEN CHOOSE i \in 1..(Len(s) - Len(w) + 1) :
         At(s, i, w) /\ \A j \in 1..(i - 1) : ~At(s, j, w)
  ELSE 0

RECURSIVE TrimStart(_, _)
TrimStart(s, i) ==
  IF i <= Len(s) /\ Char(s, i) \in SpaceChars THEN TrimStart(s, i + 1) ELSE i

RECURSIVE TrimEnd(_, _)
TrimEnd(s, j) ==
  IF j >= 1 /\ Char(s, j) \in SpaceChars THEN TrimEnd(s, j - 1) ELSE j

\* the element of a set of one element.  The loops below use it as
\* TheOne({Loop(next, ...) : next \in {step}}), which is Loop(step, ...)
\* with the value of step computed before the next iteration begins.
TheOne(S) == CHOOSE x \in S : TRUE

\* String.prototype.trim
trim(s) == Sub(s, TrimStart(s, 1), TrimEnd(s, Len(s)))

\* /^\d+$/ : the string is one or more digits and nothing else
AllDigits(s) == Len(s) > 0 /\ \A i \in 1..Len(s) : Char(s, i) \in DigitChars

\* the position after the longest run of \s starting at i
RECURSIVE SkipSpaces(_, _)
SkipSpaces(s, i) ==
  IF Char(s, i) \in SpaceChars THEN SkipSpaces(s, i + 1) ELSE i

\* the position after the longest run of \d starting at i
RECURSIVE SkipDigits(_, _)
SkipDigits(s, i) ==
  IF Char(s, i) \in DigitChars THEN SkipDigits(s, i + 1) ELSE i

(***************************************************************************)
(* Inputs.  A text is up to MaxLines consecutive lines of PAGE_LINES, each *)
(* ended by a line break.                                                  *)
(***************************************************************************)
MaxLines == 3

PAGE_LINES ==
  <<"PVR Cinema: Hyderabad",
    "12345",
    "http://example.com booking link",
    "Book at http://pvr.in 10:00 am",
    "PVR Cinema: 10:00 AM, 2:30 PM, 6:00 PM",
    "Some other text",
    "PVR Cinema: 10:00 AM, 2:30 PM, 6:00 PM",
    "  ",
    "ABC Multiplex - 11:15 am",
    "ABC Multiplex Hyderabad: 11:15 am, 4:45 pm",
    "Sandhya 35mm part 2, Hyderabad",
    "Select Sandhya 9:30 pm",
    "Select sandhya 10:00 am",
    "Show is at the time 10:00 am",
    "PVR: 10:00 am",
    "PVR 1000 am 9:00 pm Select",
    " Sandhya 70mm, RTC X Roads",
    "10:30 AM 1:45 PM",
    "Sudarshan Deluxe",
    "12345 10:00 am Select uk",
    "Sudarshan 35mm Deluxe",
    "Amb. Cinemas: 9:00 pm",
    "Amb Cinemas:  9:00 pm",
    "Amb, Cinemas: 9:00 pm..",
    "Amb; Cinemas: 9:00 pm",
    "Vyjayanthi 70mm: 10:00 am",
    "UK Cineplex Nacharam",
    "11:00 am 2:00 pm",
    "Vyjayanthi Cinema">>

\* The listing of a movie page: one line per venue, "Inox A: 1:00 pm",
\* "Inox B: 2:00 pm", ...; a page shows up to MaxVenues of them.
MaxVenues == 11

HOURS == <<"1", "2", "3", "4", "5", "6", "7", "8", "9", "10", "11", "12">>

VenueLine(i) ==
  "Inox " \o Char(UpperChars, i) \o ": " \o HOURS[((i - 1) % 12) + 1] \o ":00 pm"

VENUE_LINES == [i \in 1..(MaxVenues + 1) |-> VenueLine(i)]

\* What the page may show in addition once it is scrolled and expanded:
\* nothing; a longer line for a listed venue; a new venue; a listed venue
\* in capitals; a new venue with its time on the next line; a listed venue
\* written with a full stop.
EXTRA_LINES ==
  << <<>>,
     <<"Inox A: 1:00 pm, 4:00 pm">>,
     <<"Miraj Z: 9:15 pm">>,
     <<"INOX C: 3:00 PM">>,
     <<"The Asian Q", "7:00 pm">>,
     <<"Inox. A: 1:00 pm">> >>

INPUT_LINES ==
  PAGE_LINES \o VENUE_LINES
  \o EXTRA_LINES[2] \o EXTRA_LINES[3] \o EXTRA_LINES[4] \o EXTRA_LINES[5]
  \o EXTRA_LINES[6]

(***************************************************************************)
(* THEATRE_PATTERNS.TIME_REGEX = /\d{1,2}:\d{2}\s*(am|pm|AM|PM)/gi          *)
(*                                                                         *)
(* Throughout the module an intermediate value that is used several times  *)
(* is passed as an operator argument, or bound by \E x \in {e} : P, which  *)
(* is P with x standing for the value of e.                                *)
(***************************************************************************)
\* \d{1,2}: at position i: the position of the colon, 0 when there is none.
\* \d{1,2} is greedy: two digits when a colon follows them, else one digit.
ColonAt(s, i) ==
  IF Char(s, i) \in DigitChars /\ Char(s, i + 1) \in DigitChars /\ Char(s, i + 2) = ":"
  THEN i + 2
  ELSE IF Char(s, i) \in DigitChars /\ Char(s, i + 1) = ":" THEN i + 1 ELSE 0

\* (am|pm|AM|PM) with the i flag at position ampm: the position of its m
AmPmEnd(s, ampm) ==
  IF LowerChar(Char(s, ampm)) \in {"a", "p"} /\ LowerChar(Char(s, ampm + 1)) = "m"
  THEN ampm + 1
  ELSE 0

\* \d{2}\s*(am|pm|AM|PM) after the colon
TimeEndFromColon(s, colon) ==
  IF colon > 0 /\ Char(s, colon + 1) \in DigitChars /\ Char(s, colon + 2) \in DigitChars
  THEN AmPmEnd(s, SkipSpaces(s, colon + 3))
  ELSE 0

\* The 1-based position of the last character of the match of TIME_REGEX
\* that starts at position i, or 0 when none starts there.
TimeEndAt(s, i) == TimeEndFromColon(s, ColonAt(s, i))

\* RegExp.prototype.exec from the 1-based position from: the first match
\* at or after it, as [start, end], start = 0 when there is none.
ExecTimeAt(s, start) == [start |-> start, end |-> TimeEndAt(s, start)]

ExecTime(s, from) ==
  IF \E p \in from..Len(s) : TimeEndAt(s, p) > 0
  THEN ExecTimeAt(s, CHOOSE p \in from..Len(s) :
                       /\ TimeEndAt(s, p) > 0
                       /\ \A q \in from..(p - 1) : TimeEndAt(s, q) = 0)
  ELSE [start |-> 0, end |-> 0]

\* str.match(TIME_REGEX) with the g flag: every match, left to right, none
\* overlapping; <<>> stands for null.  The call leaves lastIndex at 0.
RECURSIVE MatchTimesFrom(_, _)
MatchTimesAt(s, m) ==
  IF m.start = 0 THEN <<>>
  ELSE <<SubSeq(s, m.start, m.end)>> \o MatchTimesFrom(s, m.end + 1)

MatchTimesFrom(s, from) == MatchTimesAt(s, ExecTime(s, from))

\* the outcome of TIME_REGEX.test for the match m
testResult(m) ==
  [found |-> m.start > 0, lastIndex |-> IF m.start > 0 THEN m.end ELSE 0]

\* TIME_REGEX.test(s) with the g flag, entered with lastIndex = li: the
\* search starts at li and the call stores the end of the match, or 0 when
\* it fails, in lastIndex.
testTime(s, li) ==
  IF li > Len(s) THEN [found |-> FALSE, lastIndex |-> 0]
  ELSE testResult(ExecTime(s, li + 1))

\* [...new Set(a)]: the first occurrence of each element, in order
uniqFirsts(a) == {i \in 1..Len(a) : \A j \in 1..(i - 1) : a[j] # a[i]}

\* the elements of a at the positions firsts, in order
uniqPick(a, firsts) ==
  <<>> \o [k \in 1..Cardinality(firsts) |->
            a[CHOOSE i \in firsts : Cardinality({j \in firsts : j < i}) = k - 1]]

uniq(a) == uniqPick(a, uniqFirsts(a))

(***************************************************************************)
(* THEATRE_PATTERNS: the curated tables.                                   *)
(***************************************************************************)
KEYWORDS ==
  <<"cinema", "multiplex", "mall", "theatre", "pvr", "inox", "miraj",
    "asian", "aparna", "amb", "gpr", "cinemax", "cinepolis", "carnival",
    "vyjayanthi", "uk cineplex", "uk", "cineplex", "sandhya", "sudarshan",
    "talluri", "nacharam", "kushaiguda", "rtc x roads", "35mm",
    "dolby atmos", "laser", "amr", "planet mall", "moula ali", "ecil",
    "secunderabad">>

LOCATIONS ==
  <<"hyderabad", "nacharam", "kushaiguda", "secunderabad", "moula ali",
    "ecil">>

\* KEYWORDS.some((keyword) => line.toLowerCase().includes(keyword))
hasTheatreKeyword(line) ==
  LET low == toLowerCase(line)
  IN  \E k \in 1..Len(KEYWORDS) : includes(low, KEYWORDS[k])

\* LOCATIONS.some((loc) => line.toLowerCase().includes(loc))
hasLocation(line) ==
  LET low == toLowerCase(line)
  IN  \E k \in 1..Len(LOCATIONS) : includes(low, LOCATIONS[k])

\* The words ws[k..], each separated from the next by \s+, matched in s from
\* position i: the position after the last word, or 0 when they do not match.
RECURSIVE SpacedWordsEnd(_, _, _, _)
SpacedWordsEnd(s, i, ws, k) ==
  IF ~At(s, i, ws[k]) THEN 0
  ELSE IF k = Len(ws) THEN i + Len(ws[k])
       ELSE IF Char(s, i + Len(ws[k])) \in SpaceChars
            THEN SpacedWordsEnd(s, SkipSpaces(s, i + Len(ws[k])), ws, k + 1)
            ELSE 0

\* whether the words ws, separated by \s+, occur somewhere in s
HasSpacedWords(s, ws) == \E i \in 1..Len(s) : SpacedWordsEnd(s, i, ws, 1) > 0

\* whether s ends with the words ws, separated by \s+ (a pattern ending in $)
EndsWithSpacedWords(s, ws) ==
  \E i \in 1..Len(s) : SpacedWordsEnd(s, i, ws, 1) = Len(s) + 1

\* THEATRE_PATTERNS.EXCLUDE_PATTERNS.some((pattern) => pattern.test(line)).
\* None of the ten patterns has the g flag, so test keeps no position.
matchesExcludePattern(line) ==
  LET low == toLowerCase(line)
  IN  \* movies? \s+ in \s+
      \/ \E i \in 1..Len(low) : \E j \in {i + 5, i + 6} :
            /\ At(low, i, "movie")
            /\ j = i + 6 => Char(low, i + 5) = "s"
            /\ Char(low, j) \in SpaceChars
            /\ At(low, SkipSpaces(low, j), "in")
            /\ Char(low, SkipSpaces(low, j) + 2) \in SpaceChars
      \* dolby \s+ cinema
      \/ HasSpacedWords(low, <<"dolby", "cinema">>)
      \* top \s+ cinema
      \/ HasSpacedWords(low, <<"top", "cinema">>)
      \* cinema \s+ chain
      \/ HasSpacedWords(low, <<"cinema", "chain">>)
      \* part \s+ \d+
      \/ \E i \in 1..Len(low) :
            /\ At(low, i, "part")
            /\ Char(low, i + 4) \in SpaceChars
            /\ Char(low, SkipSpaces(low, i + 4)) \in DigitChars
      \* sword \s+ vs \s+ spirit
      \/ HasSpacedWords(low, <<"sword", "vs", "spirit">>)
      \* hari \s+ hara \s+ veera
      \/ HasSpacedWords(low, <<"hari", "hara", "veera">>)
      \* ^ \d+ d $
      \/ /\ Len(low) >= 2
         /\ Char(low, Len(low)) = "d"
         /\ AllDigits(Sub(low, 1, Len(low) - 1))
      \* connplex | gold \s+ cinema $
      \/ includes(low, "connplex")
      \/ EndsWithSpacedWords(low, <<"gold", "cinema">>)
      \* ^ (pvr | inox | cinepolis | miraj \s+ cinemas | asian \s+ cinemas) $
      \/ low \in {"pvr", "inox", "cinepolis"}
      \/ SpacedWordsEnd(low, 1, <<"miraj", "cinemas">>, 1) = Len(low) + 1
      \/ SpacedWordsEnd(low, 1, <<"asian", "cinemas">>, 1) = Len(low) + 1

\* /\d+(mm|k)\s*(dolby|atmos|laser)/i
matchesScreenFormat(line) ==
  LET low == toLowerCase(line)
  IN  \E i \in 1..Len(low) : \E u \in {"mm", "k"} : \E w \in {"dolby", "atmos", "laser"} :
        /\ Char(low, i) \in DigitChars
        /\ At(low, SkipDigits(low, i), u)
        /\ At(low, SkipSpaces(low, SkipDigits(low, i) + Len(u)), w)

\* /(cinema|theatre|theatres)\s*:/i
matchesVenueColon(line) ==
  LET low == toLowerCase(line)
  IN  \E i \in 1..Len(low) : \E w \in {"cinema", "theatre", "theatres"} :
        /\ At(low, i, w)
        /\ Char(low, SkipSpaces(low, i + Len(w))) = ":"

\* /:\s*(hyderabad|nacharam|kushaiguda|rtc)/i
matchesColonLocality(line) ==
  LET low == toLowerCase(line)
  IN  \E i \in 1..Len(low) : \E w \in {"hyderabad", "nacharam", "kushaiguda", "rtc"} :
        /\ Char(low, i) = ":"
        /\ At(low, SkipSpaces(low, i + 1), w)

\* /\d+(mm|k)/i
matchesFilmGauge(line) ==
  LET low == toLowerCase(line)
  IN  \E i \in 1..Len(low) : \E u \in {"mm", "k"} :
        /\ Char(low, i) \in DigitChars
        /\ At(low, SkipDigits(low, i), u)

\* The first conjunct of isTheatreLine: a keyword or one of three patterns.
lineHasVenueSignal(line) ==
  \/ hasTheatreKeyword(line)
  \/ matchesScreenFormat(line)
  \/ matchesVenueColon(line)
  \/ matchesColonLocality(line)

\* lineHasSeparator without the test /\d+(mm|k)/i
lineHasSeparatorNoGauge(line) ==
  \/ includes(line, ":")
  \/ includes(line, ",")
  \/ includes(line, " - ")
  \/ hasLocation(line)

\* The separator disjuncts of isTheatreLine that precede TIME_REGEX.test.
lineHasSeparator(line) ==
  \/ includes(line, ":")
  \/ includes(line, ",")
  \/ includes(line, " - ")
  \/ hasLocation(line)
  \/ matchesFilmGauge(line)

(***************************************************************************)
(* The structural prefix patterns of extractTheatresAndShowtimes.  Each    *)
(* has the shape ^(P)D: a capture group that holds no delimiter D, then D. *)
(* The group is therefore the text before the first D, and the pattern     *)
(* matches when that text has the required content.                        *)
(***************************************************************************)
VENUE_WORDS ==
  <<"cinema", "multiplex", "mall", "theatre", "pvr", "inox", "miraj",
    "asian", "aparna", "amb", "gpr", "cinemax", "cinepolis", "carnival">>

LOCALITY_WORDS ==
  <<"hyderabad", "nacharam", "kushaiguda", "secunderabad", "moula ali",
    "ecil">>

GENERIC_WORDS == <<"cinema", "theatre", "theatres">>

\* the text of s before the first occurrence of the character d (all of s
\* when d does not occur)
BeforeFirst(s, d) ==
  IF includes(s, d) THEN Sub(s, 1, indexOf(s, d) - 1) ELSE s

\* [^D]+(?:w1|w2|...) inside pre: one of the words occurs in pre, ignoring
\* case, with at least one character before it
WordAfterStart(pre, ws) ==
  LET low == toLowerCase(pre)
  IN  \E k \in 1..Len(ws) : \E i \in 2..Len(low) : At(low, i, ws[k])

NoMatch == [matched |-> FALSE, name |-> ""]

\* The capture group of the first of the nine theatrePatterns that matches
\* the trimmed line, tried top to bottom; name is match[1].trim().
matchTheatrePattern(trimmedLine) ==
  LET s        == trimmedLine
      hasColon == includes(s, ":")
      colon    == BeforeFirst(s, ":")
      lowColon == toLowerCase(colon)
      dash     == BeforeFirst(s, "-")
      dot      == BeforeFirst(s, ".")
      paren    == BeforeFirst(s, "(")
      Hit(g)   == [matched |-> TRUE, name |-> trim(g)]
  IN  \* ^([^:]*vyjayanthi[^:]*):
      IF hasColon /\ includes(lowColon, "vyjayanthi") THEN Hit(colon)
      \* ^([^:]*uk\s*cineplex[^:]*):
      ELSE IF hasColon /\ (\E i \in 1..Len(lowColon) :
                 /\ At(lowColon, i, "uk")
                 /\ At(lowColon, SkipSpaces(lowColon, i + 2), "cineplex"))
      THEN Hit(colon)
      \* ^([^:]+(?:cinema|...|carnival)[^:]*):
      ELSE IF hasColon /\ WordAfterStart(colon, VENUE_WORDS) THEN Hit(colon)
      \* ^([^:]+(?:hyderabad|...|ecil)[^:]*):
      ELSE IF hasColon /\ WordAfterStart(colon, LOCALITY_WORDS) THEN Hit(colon)
      \* ^([^:]+(?:cinema|theatre|theatres)[^:]*):
      ELSE IF hasColon /\ WordAfterStart(colon, GENERIC_WORDS) THEN Hit(colon)
      \* ^([^:]+):\s*\d{1,2}:\d{2}\s*(am|pm|AM|PM)
      ELSE IF /\ hasColon
              /\ Len(colon) >= 1
              /\ TimeEndAt(s, SkipSpaces(s, Len(colon) + 2)) > 0
      THEN Hit(colon)
      \* ^([^-]+(?:cinema|...|carnival)[^-]*)-
      ELSE IF includes(s, "-") /\ WordAfterStart(dash, VENUE_WORDS) THEN Hit(dash)
      \* ^([^.]+(?:cinema|...|carnival)[^.]*)\.
      ELSE IF includes(s, ".") /\ WordAfterStart(dot, VENUE_WORDS) THEN Hit(dot)
      \* ^([^(]+(?:cinema|...|carnival)[^(]*)
      ELSE IF WordAfterStart(paren, VENUE_WORDS) THEN Hit(paren)
      ELSE NoMatch

(***************************************************************************)
(* Tabulation.  The facts about one line that do not depend on lastIndex   *)
(* are computed once for every line of the inputs; FactsOf(line) reads the *)
(* table.                                                                  *)
(***************************************************************************)
LineFacts(line) ==
  [matchTimes            |-> MatchTimesFrom(line, 1),
   hasTheatreKeyword     |-> hasTheatreKeyword(line),
   matchTheatrePattern   |-> matchTheatrePattern(line),
   lineHasVenueSignal    |-> lineHasVenueSignal(line),
   lineHasSeparator      |-> lineHasSeparator(line),
   matchesExcludePattern |-> matchesExcludePattern(line)]

KNOWN_LINES ==
  INPUT_LINES \o [k \in 1..Len(INPUT_LINES) |-> trim(INPUT_LINES[k])]

FACTS == <<>> \o [k \in 1..Len(KNOWN_LINES) |-> LineFacts(KNOWN_LINES[k])]

FactsOf(line) ==
  FACTS[CHOOSE k \in 1..Len(KNOWN_LINES) : KNOWN_LINES[k] = line]

\* str.match(TIME_REGEX): <<>> stands for null
matchTimes(s) == FactsOf(s).matchTimes

(***************************************************************************)
(* isTheatreLine.  facts is FactsOf(line).                                 *)
(***************************************************************************)
\* the conjuncts of isTheatreLine before the separator test, without the
\* exclusion conjunct
theatreLineHeadNoExclusion(line, facts) ==
  /\ facts.lineHasVenueSignal
  /\ Len(line) > 5
  /\ Len(line) < 200
  /\ ~includes(line, "http")
  /\ ~includes(line, "Select")
  /\ ~AllDigits(line)

\* the conjuncts of isTheatreLine before the separator test
theatreLineHead(line, facts) ==
  /\ facts.lineHasVenueSignal
  /\ Len(line) > 5
  /\ Len(line) < 200
  /\ ~includes(line, "http")
  /\ ~includes(line, "Select")
  /\ ~AllDigits(line)
  /\ ~facts.matchesExcludePattern

\* && and || short-circuit, so TIME_REGEX.test runs, and moves lastIndex,
\* only when every conjunct before it holds and no separator disjunct does;
\* t is its outcome.
theatreLineResult(head, sep, t, li) ==
  [result    |-> head /\ (sep \/ t.found),
   lastIndex |-> IF head /\ ~sep THEN t.lastIndex ELSE li]

\* isTheatreLine(line), entered with TIME_REGEX.lastIndex = li
isTheatreLine(line, facts, li) ==
  theatreLineResult(theatreLineHead(line, facts), facts.lineHasSeparator,
                    testTime(line, li), li)

(***************************************************************************)
(* Line splitting, the time extractor, the name refiner, the key.          *)
(* Line indices are 1-based here: line c of the model is lines[c - 1] of   *)
(* the code.                                                               *)
(***************************************************************************)
\* the positions of the line breaks of text
LineBreaks(text) == {i \in 1..Len(text) : Char(text, i) = "\n"}

\* bodyText.split("\n"): the pieces between consecutive line breaks
split(text) ==
  LET nl     == LineBreaks(text)
      brk(k) == IF k = 0 THEN 0
                ELSE IF k > Cardinality(nl) THEN Len(text) + 1
                ELSE CHOOSE p \in nl : Cardinality({q \in nl : q < p}) = k - 1
  IN  [k \in 1..(Cardinality(nl) + 1) |-> Sub(text, brk(k - 1) + 1, brk(k) - 1)]

\* bodyText.split("\n").filter((line) => line.trim())
splitLines(bodyText) ==
  SelectSeq(split(bodyText), LAMBDA line : trim(line) # "")

Max(a, b) == IF a >= b THEN a ELSE b

Min(a, b) == IF a <= b THEN a ELSE b

\* the concatenation of f[i] for i in from..to
RECURSIVE ConcatOver(_, _, _)
ConcatOver(f, from, to) ==
  IF from > to THEN <<>>
  ELSE IF from = to THEN f[from]
  ELSE ConcatOver(f, from, (from + to) \div 2)
       \o ConcatOver(f, (from + to) \div 2 + 1, to)

\* line.match(TIME_REGEX) for every line of lines
lineTimes(lines) == [i \in 1..Len(lines) |-> matchTimes(lines[i])]

\* nextTimes without the skip of long lines and of "http" and "Select"
nextTimesNoSkip(lines, times) == [i \in 1..Len(lines) |-> times[i]]

\* the matches of the lines the forward scan reads: none for a line over 50
\* characters or holding "http" or "Select"
nextTimes(lines, times) ==
  [i \in 1..Len(lines) |->
     IF \/ Len(lines[i]) > 50
        \/ includes(lines[i], "http")
        \/ includes(lines[i], "Select")
     THEN <<>>
     ELSE times[i]]

\* The window is lines[max(0, centerIndex - 5)] up to, not including,
\* lines[min(centerIndex + range, length)]; then the centre line again;
\* then the next seven lines.
showtimesAround(times, next, c, range) ==
  uniq(ConcatOver(times, Max(1, c - 5), Min(c - 1 + range, Len(times)))
       \o (IF c <= Len(times) THEN times[c] ELSE <<>>)
       \o ConcatOver(next, c + 1, Min(c + 7, Len(times))))

extractShowtimesOf(lines, times, c, range) ==
  showtimesAround(times, nextTimes(lines, times), c, range)

\* extractShowtimes(lines, centerIndex, range) for the 1-based line c.
\* Every call of match leaves TIME_REGEX.lastIndex 0.
extractShowtimes(lines, c, range) ==
  extractShowtimesOf(lines, lineTimes(lines), c, range)

\* improveTheatreName(lines, lineIndex, originalName) for the 1-based line c:
\* the first line of lines[max(0, lineIndex - 2)] .. lines[min(lineIndex + 3,
\* length) - 1] that passes the test, else originalName.
RECURSIVE ImproveFrom(_, _, _, _)
ImproveFrom(lines, i, last, originalName) ==
  IF i > last THEN originalName
  ELSE LET contextLine == trim(lines[i])
           lowContext  == toLowerCase(contextLine)
           lowName     == toLowerCase(originalName)
       IN  IF /\ Len(contextLine) > Len(originalName)
              /\ Len(contextLine) < 100
              /\ (includes(lowContext, lowName) \/ includes(lowName, lowContext))
              /\ ~AllDigits(contextLine)
              /\ ~includes(contextLine, "http")
              /\ (includes(contextLine, ":") \/ includes(contextLine, ","))
           THEN contextLine
           ELSE ImproveFrom(lines, i + 1, last, originalName)

improveTheatreName(lines, c, originalName) ==
  ImproveFrom(lines, Max(1, c - 2), Min(c + 2, Len(lines)), originalName)

\* .replace(/[^\w\s]/g, "")
RECURSIVE StripNonWord(_, _, _)
StripNonWord(s, i, j) ==
  IF i > j THEN ""
  ELSE IF i = j
       THEN (IF Char(s, i) \in WordChars \cup SpaceChars THEN Char(s, i) ELSE "")
       ELSE StripNonWord(s, i, (i + j) \div 2)
            \o StripNonWord(s, (i + j) \div 2 + 1, j)

\* .replace(/\s+/g, " ")
\* the first character of a run of \s becomes " ", the rest of it ""
RECURSIVE CollapseSpaces(_, _, _)
CollapseSpaces(s, i, j) ==
  IF i > j THEN ""
  ELSE IF i = j
       THEN (IF Char(s, i) \notin SpaceChars THEN Char(s, i)
             ELSE IF Char(s, i - 1) \in SpaceChars THEN "" ELSE " ")
       ELSE CollapseSpaces(s, i, (i + j) \div 2)
            \o CollapseSpaces(s, (i + j) \div 2 + 1, j)

\* name.toLowerCase().replace(/[^\w\s]/g, "").replace(/\s+/g, " ").trim()
replaceNonWord(s) == StripNonWord(s, 1, Len(s))

replaceSpaces(s) == CollapseSpaces(s, 1, Len(s))

normalizedKey(name) ==
  trim(replaceSpaces(replaceNonWord(toLowerCase(name))))

(***************************************************************************)
(* extractTheatresAndShowtimes.  theatreMap is a sequence of entries       *)
(* [key, theatre, showtimes] in insertion order.                           *)
(***************************************************************************)
\* the position of key in theatreMap, 0 when theatreMap.has(key) is false
mapIndex(theatreMap, key) ==
  IF \E p \in 1..Len(theatreMap) : theatreMap[p].key = key
  THEN CHOOSE p \in 1..Len(theatreMap) : theatreMap[p].key = key
  ELSE 0

\* Array.from(theatreMap.values())
mapValues(theatreMap) ==
  [p \in 1..Len(theatreMap) |->
     [theatre |-> theatreMap[p].theatre, showtimes |-> theatreMap[p].showtimes]]

\* if (isTheatre && theatreName) theatreCandidates.push(...)
firstPassOutcome(trimmedLine, index, isTheatre, theatreName, li) ==
  [push      |-> isTheatre /\ theatreName # "",
   candidate |-> [index |-> index, name |-> theatreName,
                  originalLine |-> trimmedLine],
   lastIndex |-> li]

\* if (!isTheatre && isTheatreLine(trimmedLine)): classified is the outcome
\* of isTheatreLine, the name is the whole line
firstPassClassified(trimmedLine, index, classified) ==
  firstPassOutcome(trimmedLine, index, classified.result, trimmedLine,
                   classified.lastIndex)

\* the loop over theatrePatterns, then isTheatreLine, which is called only
\* when no pattern matched
firstPassTrimmed(trimmedLine, facts, index, li) ==
  IF facts.matchTheatrePattern.matched
  THEN firstPassOutcome(trimmedLine, index, TRUE,
                        facts.matchTheatrePattern.name, li)
  ELSE firstPassClassified(trimmedLine, index,
                           isTheatreLine(trimmedLine, facts, li))

\* One iteration of the first pass, for the 1-based line index, entered
\* with TIME_REGEX.lastIndex = li: whether the line is pushed on
\* theatreCandidates, the candidate, and lastIndex afterwards.
firstPassLine(trimmedLine, index, li) ==
  firstPassTrimmed(trimmedLine, FactsOf(trimmedLine), index, li)

\* theatreCandidates and lastIndex after the iteration with outcome r
firstPassPush(theatreCandidates, r) ==
  [theatreCandidates |-> IF r.push THEN Append(theatreCandidates, r.candidate)
                         ELSE theatreCandidates,
   lastIndex         |-> r.lastIndex]

RECURSIVE FirstPassFrom(_, _, _)
FirstPassFrom(lines, i, st) ==
  IF i > Len(lines) THEN st
  ELSE TheOne({FirstPassFrom(lines, i + 1, next) :
                 next \in {firstPassPush(st.theatreCandidates,
                                         firstPassLine(trim(lines[i]), i,
                                                       st.lastIndex))}})

\* First pass: lines.forEach over every line, in order.
firstPass(lines, li) ==
  FirstPassFrom(lines, 1, [theatreCandidates |-> <<>>, lastIndex |-> li])

\* [...new Set([...existing.showtimes, ...showtimes])] without the Set
mergeShowtimesConcat(existing, showtimes) == existing \o showtimes

\* [...new Set([...existing.showtimes, ...showtimes])]
mergeShowtimes(existing, showtimes) == uniq(existing \o showtimes)

\* secondPassSet with improvedName.length >= existing.theatre.length
secondPassSetLongerOrEqual(theatreMap, p, key, improvedName, showtimes) ==
  IF p = 0
  THEN Append(theatreMap, [key |-> key, theatre |-> improvedName,
                           showtimes |-> uniq(showtimes)])
  ELSE [theatreMap EXCEPT
          ![p].showtimes = mergeShowtimes(@, showtimes),
          ![p].theatre   = IF Len(improvedName) >= Len(@)
                           THEN improvedName ELSE @]

\* theatreMap.has(key) ? merge into the entry at p : theatreMap.set(key, ...)
secondPassSet(theatreMap, p, key, improvedName, showtimes) ==
  IF p = 0
  THEN Append(theatreMap, [key |-> key, theatre |-> improvedName,
                           showtimes |-> uniq(showtimes)])
  ELSE [theatreMap EXCEPT
          ![p].showtimes = mergeShowtimes(@, showtimes),
          ![p].theatre   = IF Len(improvedName) > Len(@)
                           THEN improvedName ELSE @]

secondPassKeyed(theatreMap, key, improvedName, showtimes) ==
  secondPassSet(theatreMap, mapIndex(theatreMap, key), key, improvedName,
                showtimes)

\* secondPassNamed without the test showtimes.length > 0
secondPassNamedNoGuard(theatreMap, improvedName, showtimes) ==
  secondPassKeyed(theatreMap, normalizedKey(improvedName), improvedName,
                  showtimes)

\* if (showtimes.length > 0): the key of the refined name, and the
\* insertion into or the merge with theatreMap
secondPassNamed(theatreMap, improvedName, showtimes) ==
  IF Len(showtimes) > 0
  THEN secondPassKeyed(theatreMap, normalizedKey(improvedName), improvedName,
                       showtimes)
  ELSE theatreMap

\* the showtimes of the candidate's window plus those of its own line
candidateShowtimes(lines, candidate) ==
  extractShowtimes(lines, candidate.index, 15)
  \o matchTimes(candidate.originalLine)

\* One iteration of the second pass.
secondPassStep(theatreMap, lines, candidate) ==
  secondPassNamed(theatreMap,
                  improveTheatreName(lines, candidate.index, candidate.name),
                  candidateShowtimes(lines, candidate))

RECURSIVE SecondPassFrom(_, _, _, _)
SecondPassFrom(theatreMap, lines, theatreCandidates, c) ==
  IF c > Len(theatreCandidates) THEN theatreMap
  ELSE TheOne({SecondPassFrom(next, lines, theatreCandidates, c + 1) :
                 next \in {secondPassStep(theatreMap, lines,
                                          theatreCandidates[c])}})

\* Second pass: theatreCandidates.forEach, starting from an empty Map.
secondPass(lines, theatreCandidates) ==
  SecondPassFrom(<<>>, lines, theatreCandidates, 1)

\* the entry the third pass stores under key: set, overwriting
thirdPassStore(theatreMap, key, entry) ==
  IF mapIndex(theatreMap, key) = 0 THEN Append(theatreMap, entry)
  ELSE [theatreMap EXCEPT ![mapIndex(theatreMap, key)] = entry]

\* if (!theatreMap.has(normalizedKey)) theatreMap.set(normalizedKey, entry)
thirdPassSetIfAbsent(theatreMap, key, entry) ==
  IF mapIndex(theatreMap, key) = 0 THEN Append(theatreMap, entry)
  ELSE theatreMap

\* thirdPassKeyed that stores nothing once the map holds ten records
thirdPassKeyedWhenLow(st, key, theatreName, timeMatch, index) ==
  [theatreMap |-> IF Len(st.theatreMap) < 10
                  THEN thirdPassSetIfAbsent(st.theatreMap, key,
                         [key |-> key, theatre |-> theatreName,
                          showtimes |-> uniq(timeMatch)])
                  ELSE st.theatreMap,
   lastIndex  |-> 0,
   named      |-> Append(st.named, [index |-> index, name |-> theatreName,
                                    showtimes |-> timeMatch])]

\* The third pass works on st = [theatreMap, lastIndex, named].  named
\* records, for the properties, each line that reached the test of
\* theatreMap.has: its index, theatreName and showtimes.  The match calls
\* put lastIndex back to 0.
thirdPassKeyed(st, key, theatreName, timeMatch, index) ==
  [theatreMap |-> thirdPassSetIfAbsent(st.theatreMap, key,
                    [key |-> key, theatre |-> theatreName,
                     showtimes |-> uniq(timeMatch)]),
   lastIndex  |-> 0,
   named      |-> Append(st.named, [index |-> index, name |-> theatreName,
                                    showtimes |-> timeMatch])]

\* if (theatreName.length > 3)
thirdPassNamed(st, theatreName, timeMatch, index) ==
  IF Len(theatreName) > 3
  THEN thirdPassKeyed(st, normalizedKey(theatreName), theatreName, timeMatch,
                      index)
  ELSE [st EXCEPT !.lastIndex = 0]

\* if (timeMatch): the name is everything before the first time
thirdPassMatched(st, trimmedLine, timeMatch, index) ==
  IF timeMatch # <<>>
  THEN thirdPassNamed(st,
                      trim(Sub(trimmedLine, 1,
                               indexOf(trimmedLine, timeMatch[1]) - 1)),
                      timeMatch, index)
  ELSE [st EXCEPT !.lastIndex = 0]

\* hasTime is the outcome of TIME_REGEX.test(trimmedLine), which started at
\* lastIndex and moved it
thirdPassTested(st, trimmedLine, facts, hasTime, index) ==
  IF /\ facts.hasTheatreKeyword
     /\ hasTime.found
     /\ Len(trimmedLine) > 10
     /\ Len(trimmedLine) < 150
  THEN thirdPassMatched(st, trimmedLine, facts.matchTimes, index)
  ELSE [st EXCEPT !.lastIndex = hasTime.lastIndex]

thirdPassTrimmed(st, trimmedLine, index) ==
  thirdPassTested(st, trimmedLine, FactsOf(trimmedLine),
                  testTime(trimmedLine, st.lastIndex), index)

\* One iteration of the third pass for the 1-based line index.
thirdPassStep(st, lines, theatreCandidates, index) ==
  IF \E c \in 1..Len(theatreCandidates) : theatreCandidates[c].index = index
  THEN st
  ELSE thirdPassTrimmed(st, trim(lines[index]), index)

RECURSIVE ThirdPassFrom(_, _, _, _)
ThirdPassFrom(st, lines, theatreCandidates, i) ==
  IF i > Len(lines) THEN st
  ELSE TheOne({ThirdPassFrom(next, lines, theatreCandidates, i + 1) :
                 next \in {thirdPassStep(st, lines, theatreCandidates, i)}})

\* Third pass: lines.forEach over every line, in order.
thirdPass(st, lines, theatreCandidates) ==
  ThirdPassFrom(st, lines, theatreCandidates, 1)

\* return Array.from(theatreMap.values()), with the local theatreCandidates,
\* the lines the third pass named, and lastIndex at the return
extractResult(theatreCandidates, third) ==
  [theatres          |-> mapValues(third.theatreMap),
   theatreCandidates |-> theatreCandidates,
   thirdPassNamed    |-> third.named,
   lastIndex         |-> third.lastIndex]

\* The second and third passes, after the first pass ended with found.  The
\* second pass calls match for every candidate, so it leaves lastIndex 0
\* when there is one.
extractFromCandidates(lines, found) ==
  extractResult(found.theatreCandidates,
                thirdPass([theatreMap |-> secondPass(lines, found.theatreCandidates),
                           lastIndex  |-> IF found.theatreCandidates = <<>>
                                          THEN found.lastIndex ELSE 0,
                           named      |-> <<>>],
                          lines, found.theatreCandidates))

extractFromLines(lines, li) ==
  extractFromCandidates(lines, firstPass(lines, li))

\* extractTheatresAndShowtimes(bodyText), entered with
\* TIME_REGEX.lastIndex = li
extractTheatresAndShowtimes(bodyText, li) ==
  extractFromLines(splitLines(bodyText), li)

(***************************************************************************)
(* extractTheatresAlternative.                                             *)
(***************************************************************************)
specificTheatres == <<"vyjayanthi", "uk cineplex", "uk", "cineplex">>

LetterChars == UpperSet \cup LowerSet

\* the characters [a-zA-Z0-9\s\-\.\(\)] that may end a cleaned name
NameEndChars ==
  LetterChars \cup DigitChars \cup SpaceChars \cup {"-", ".", "(", ")"}

RECURSIVE SkipNonLetters(_, _)
SkipNonLetters(s, i) ==
  IF i <= Len(s) /\ Char(s, i) \notin LetterChars
  THEN SkipNonLetters(s, i + 1) ELSE i

RECURSIVE DropTail(_, _)
DropTail(s, j) ==
  IF j >= 1 /\ Char(s, j) \notin NameEndChars THEN DropTail(s, j - 1) ELSE j

\* name.replace(/^[^a-zA-Z]*/, "").replace(/[^a-zA-Z0-9\s\-\.\(\)]*$/, "")
cleanTheatreName(name) ==
  LET head == Sub(name, SkipNonLetters(name, 1), Len(name))
  IN  Sub(head, 1, DropTail(head, Len(head)))

\* if (!theatreMap.has(normalizedKey)) theatreMap.set(normalizedKey, ...)
alternativeSet(theatreMap, key, theatreName, times) ==
  IF mapIndex(theatreMap, key) = 0
  THEN Append(theatreMap, [key |-> key, theatre |-> theatreName,
                           showtimes |-> uniq(times)])
  ELSE theatreMap

\* if (theatreName.length > 3 && theatreName.length < 100)
alternativeNamed(theatreMap, theatreName, times) ==
  IF Len(theatreName) > 3 /\ Len(theatreName) < 100
  THEN alternativeSet(theatreMap, normalizedKey(theatreName), theatreName, times)
  ELSE theatreMap

\* if (timeIndex > 0), timeIndex being 0-based in the code and 1-based here
alternativeTimed(theatreMap, trimmedLine, times, timeIndex) ==
  IF timeIndex > 1
  THEN alternativeNamed(theatreMap,
                        cleanTheatreName(trim(Sub(trimmedLine, 1, timeIndex - 1))),
                        times)
  ELSE theatreMap

\* trimmedLine.toLowerCase() includes one of specificTheatres
hasSpecificTheatre(low) ==
  \E k \in 1..Len(specificTheatres) : includes(low, specificTheatres[k])

\* if ((hasTheatreKeyword || hasSpecificTheatre) && times.length > 0)
alternativeTrimmed(theatreMap, trimmedLine, facts) ==
  IF /\ facts.hasTheatreKeyword \/ hasSpecificTheatre(toLowerCase(trimmedLine))
     /\ Len(facts.matchTimes) > 0
  THEN alternativeTimed(theatreMap, trimmedLine, facts.matchTimes,
                        indexOf(trimmedLine, facts.matchTimes[1]))
  ELSE theatreMap

\* One iteration of the first loop, on theatreMap: a line of 8 to 300
\* characters with a keyword and a time token, named by what precedes the
\* first time token.
alternativeLineStep(theatreMap, trimmedLine) ==
  IF Len(trimmedLine) < 8 \/ Len(trimmedLine) > 300 THEN theatreMap
  ELSE alternativeTrimmed(theatreMap, trimmedLine, FactsOf(trimmedLine))

\* whether the lower-case line names a target venue
lowNamesTargetVenue(low) ==
  \/ includes(low, "vyjayanthi")
  \/ includes(low, "uk cineplex")
  \/ includes(low, "uk") /\ includes(low, "cineplex")

\* whether the second loop looks at the line
namesTargetVenue(trimmedLine) == lowNamesTargetVenue(toLowerCase(trimmedLine))

\* if (nearbyTimes.length > 0): a record named by the whole cleaned line
alternativeNearby(theatreMap, trimmedLine, nearbyTimes) ==
  IF Len(nearbyTimes) > 0
  THEN alternativeNamed(theatreMap, cleanTheatreName(trimmedLine), nearbyTimes)
  ELSE theatreMap

\* The second loop with the forward reach of extractShowtimes, 15 lines.
alternativeTargetStepWide(theatreMap, lines, c) ==
  IF namesTargetVenue(trim(lines[c]))
  THEN alternativeNearby(theatreMap, trim(lines[c]),
                         ConcatOver(lineTimes(lines), Max(1, c - 5),
                                    Min(Len(lines), c + 14)))
  ELSE theatreMap

\* One iteration of the second loop for the 1-based line c: the times of
\* lines[max(0, index - 5)] up to, not including, lines[min(length,
\* index + 10)].
alternativeTargetStep(theatreMap, lines, c) ==
  IF namesTargetVenue(trim(lines[c]))
  THEN alternativeNearby(theatreMap, trim(lines[c]),
                         ConcatOver(lineTimes(lines), Max(1, c - 5),
                                    Min(Len(lines), c + 9)))
  ELSE theatreMap

RECURSIVE AlternativeLinesFrom(_, _, _)
AlternativeLinesFrom(theatreMap, lines, i) ==
  IF i > Len(lines) THEN theatreMap
  ELSE TheOne({AlternativeLinesFrom(next, lines, i + 1) :
                 next \in {alternativeLineStep(theatreMap, trim(lines[i]))}})

RECURSIVE AlternativeTargetsFrom(_, _, _)
AlternativeTargetsFrom(theatreMap, lines, i) ==
  IF i > Len(lines) THEN theatreMap
  ELSE TheOne({AlternativeTargetsFrom(next, lines, i + 1) :
                 next \in {alternativeTargetStep(theatreMap, lines, i)}})

\* whether some line reaches a call of match
alternativeCallsMatch(lines) ==
  \E i \in 1..Len(lines) :
    \/ Len(trim(lines[i])) >= 8 /\ Len(trim(lines[i])) <= 300
    \/ namesTargetVenue(trim(lines[i]))

alternativeFromLines(lines, li) ==
  [theatres  |-> mapValues(AlternativeTargetsFrom(
                             AlternativeLinesFrom(<<>>, lines, 1), lines, 1)),
   lastIndex |-> IF alternativeCallsMatch(lines) THEN 0 ELSE li]

\* extractTheatresAlternative(bodyText), entered with
\* TIME_REGEX.lastIndex = li.  It reads TIME_REGEX through match only, which
\* puts lastIndex back to 0.
extractTheatresAlternative(bodyText, li) ==
  alternativeFromLines(splitLines(bodyText), li)

(***************************************************************************)
(* The texts.                                                              *)
(***************************************************************************)
RECURSIVE JoinLines(_, _, _)
JoinLines(lines, from, to) ==
  IF from > to THEN "" ELSE lines[from] \o "\n" \o JoinLines(lines, from + 1, to)

\* text number k: the lines i .. i + n - 1 of PAGE_LINES, cut at its end,
\* for every start i and every length n up to MaxLines
WINDOW_TEXTS ==
  [k \in 1..(Len(PAGE_LINES) * MaxLines) |->
     LET i == ((k - 1) % Len(PAGE_LINES)) + 1
         n == ((k - 1) \div Len(PAGE_LINES)) + 1
     IN  JoinLines(PAGE_LINES, i, Min(i + n - 1, Len(PAGE_LINES)))]

\* n lines without a keyword or a time
RECURSIVE Filler(_)
Filler(n) == IF n = 0 THEN "" ELSE "Some other text\n" \o Filler(n - 1)

\* Longer texts: a listing of ten venues followed by a line with a keyword
\* and a time that no pattern claims; a venue name with its times nine
\* lines below it, and ten lines below it.
LONG_TEXTS ==
  <<JoinLines(VENUE_LINES, 1, 10) \o "Select Sandhya 9:30 pm\n",
    "Vyjayanthi Cinema\n" \o Filler(8) \o "11:00 am 2:00 pm\n",
    "Vyjayanthi Cinema\n" \o Filler(9) \o "11:00 am 2:00 pm\n">>

TEXTS == WINDOW_TEXTS \o LONG_TEXTS

\* the values TIME_REGEX.lastIndex can take on these inputs: 0 and the end
\* of a match in a trimmed line
LastIndexValues ==
  {0} \cup UNION {{TimeEndAt(trim(PAGE_LINES[l]), i) : i \in 1..Len(PAGE_LINES[l])} :
                    l \in 1..Len(PAGE_LINES)}

RECURSIVE SortedSeq(_)
SortedSeq(S) ==
  IF S = {} THEN <<>>
  ELSE LET m == CHOOSE x \in S : \A y \in S : x <= y
       IN  <<m>> \o SortedSeq(S \ {m})

LAST_INDEXES == SortedSeq(LastIndexValues)

LastIndexNumber(li) == CHOOSE k \in 1..Len(LAST_INDEXES) : LAST_INDEXES[k] = li

\* The two extraction functions tabulated over the texts and the values of
\* lastIndex, as explicit sequences, so that each call is computed once.
PrimaryTable ==
  <<>> \o [t \in 1..Len(TEXTS) |->
            <<>> \o [k \in 1..Len(LAST_INDEXES) |->
                      extractTheatresAndShowtimes(TEXTS[t], LAST_INDEXES[k])]]

AlternativeTable ==
  <<>> \o [t \in 1..Len(TEXTS) |->
            <<>> \o [k \in 1..Len(LAST_INDEXES) |->
                      extractTheatresAlternative(TEXTS[t], LAST_INDEXES[k])]]

(***************************************************************************)
(* The values of the monitoring variables.                                 *)
(***************************************************************************)
MaxCycles == 2

ENTRIES == {"smartScraper", "monitorAllMovies"}

HARDCODED_MOVIES == <<"Coolie", "War 2">>

\* the values of currentStatus that analyzeMoviePage returns
STATUSES == {"BOOKING_AVAILABLE", "COMING_SOON", "UNKNOWN"}

THEATRE_LISTS == {<<>>, <<[theatre |-> "PVR Cinemas", showtimes |-> <<"10:00 am">>]>>}

\* the results of analyzeMoviePage: any status with any list
MOVIE_DATA == [currentStatus : STATUSES, theatres : THEATRE_LISTS]

\* lastStatuses.get(url) of a url that was never set; lastStatus of
\* smartScraper before the first check
NoMovieData == [currentStatus |-> "null", theatres |-> <<>>]

\* the argument of the error notification of smartScraper
ErrorData == [currentStatus |-> "ERROR", theatres |-> <<>>]

NoNotification ==
  [handler |-> "none", movieData |-> NoMovieData, isStatusChange |-> FALSE]

NoProcess ==
  [entry |-> "none", runOnce |-> FALSE, pc |-> "idle", index |-> 1,
   movieData |-> NoMovieData, rejected |-> FALSE, scheduled |-> 0,
   cycles |-> 0, ended |-> "none"]

NoCycle ==
  [start |-> [m \in 1..Len(HARDCODED_MOVIES) |-> NoMovieData],
   outcome |-> [m \in 1..Len(HARDCODED_MOVIES) |-> "unchecked"]]

\* no monitoring: the state of the monitoring variables in the
\* specifications of the extraction engine
NoMonitoring ==
  /\ proc = NoProcess
  /\ timers = 0
  /\ lastStatus = NoMovieData.currentStatus
  /\ lastStatuses = NoCycle.start
  /\ browsers = 0
  /\ sent = NoNotification
  /\ cycle = NoCycle

(***************************************************************************)
(* State.                                                                  *)
(***************************************************************************)
NoCall ==
  [fn |-> "none", text |-> "", theatres |-> <<>>, theatreCandidates |-> <<>>,
   thirdPassNamed |-> <<>>]

NoPage ==
  [pc |-> "idle", bodyText |-> "", primaryTheatres |-> <<>>,
   additionalContent |-> "", additionalTheatres |-> <<>>,
   alternativeTheatres |-> <<>>, theatres |-> <<>>, fallback |-> FALSE]

Init ==
  /\ timeRegexLastIndex = 0
  /\ call = NoCall
  /\ page = NoPage
  /\ NoMonitoring

\* extractTheatresAndShowtimes(TEXTS[t])
CallPrimary(t) ==
  \E r \in {PrimaryTable[t][LastIndexNumber(timeRegexLastIndex)]} :
    /\ call' = [fn |-> "primary", text |-> TEXTS[t], theatres |-> r.theatres,
                theatreCandidates |-> r.theatreCandidates,
                thirdPassNamed |-> r.thirdPassNamed]
    /\ timeRegexLastIndex' = r.lastIndex
    /\ UNCHANGED <<page, monitorVars>>

\* extractTheatresAlternative(TEXTS[t])
CallAlternative(t) ==
  \E r \in {AlternativeTable[t][LastIndexNumber(timeRegexLastIndex)]} :
    /\ call' = [fn |-> "alternative", text |-> TEXTS[t], theatres |-> r.theatres,
                theatreCandidates |-> <<>>, thirdPassNamed |-> <<>>]
    /\ timeRegexLastIndex' = r.lastIndex
    /\ UNCHANGED <<page, monitorVars>>

Next ==
  \/ \E t \in 1..Len(TEXTS) : CallPrimary(t)
  \/ \E t \in 1..Len(TEXTS) : CallAlternative(t)

Spec == Init /\ [][Next]_vars

(***************************************************************************)
(* Direct calls of isTheatreLine and extractShowtimes.  TIME_REGEX is      *)
(* shared, so a call may start with any position an earlier extraction     *)
(* left in lastIndex.                                                      *)
(***************************************************************************)
\* the centre lines, 1-based: every line of a text and the two past its end
CENTERS == 1..(MaxLines + 2)

\* the values of the parameter range: the default and two smaller ones
RANGES == {0, 2, 15}

\* the texts of MaxLines lines
FULL_TEXTS ==
  {t \in 1..Len(TEXTS) : Len(splitLines(TEXTS[t])) = MaxLines}

InitFunctions ==
  /\ timeRegexLastIndex \in LastIndexValues
  /\ call = NoCall
  /\ page = NoPage
  /\ NoMonitoring

\* isTheatreLine(KNOWN_LINES[l])
CallIsTheatreLine(l) ==
  \E r \in {isTheatreLine(KNOWN_LINES[l], FactsOf(KNOWN_LINES[l]),
                           timeRegexLastIndex)} :
    /\ call' = [fn |-> "isTheatreLine", text |-> KNOWN_LINES[l],
                result |-> r.result]
    /\ timeRegexLastIndex' = r.lastIndex
    /\ UNCHANGED <<page, monitorVars>>

\* whether extractShowtimes(lines, centerIndex, range) calls match, which
\* puts lastIndex back to 0: on a line of the window, on the centre line,
\* or on a line of the forward scan that is not skipped
extractShowtimesCallsMatch(lines, c, range) ==
  \/ Max(1, c - 5) <= Min(c - 1 + range, Len(lines))
  \/ c <= Len(lines)
  \/ \E i \in (c + 1)..Min(c + 7, Len(lines)) :
       ~(\/ Len(lines[i]) > 50
         \/ includes(lines[i], "http")
         \/ includes(lines[i], "Select"))

\* extractShowtimes(lines, c - 1, range) on the lines of TEXTS[t]
CallExtractShowtimes(t, c, range) ==
  \E lines \in {splitLines(TEXTS[t])} :
    /\ call' = [fn |-> "extractShowtimes", text |-> TEXTS[t], center |-> c,
                range |-> range,
                showtimes |-> extractShowtimes(lines, c, range)]
    /\ timeRegexLastIndex' = IF extractShowtimesCallsMatch(lines, c, range)
                             THEN 0 ELSE timeRegexLastIndex
    /\ UNCHANGED <<page, monitorVars>>

NextFunctions ==
  \/ \E l \in 1..Len(KNOWN_LINES) : CallIsTheatreLine(l)
  \/ \E t \in FULL_TEXTS : \E c \in CENTERS : \E range \in RANGES :
       CallExtractShowtimes(t, c, range)

SpecFunctions == InitFunctions /\ [][NextFunctions]_vars

(***************************************************************************)
(* analyzeMoviePage: the extraction of the page text, the supplementary    *)
(* extraction when the count is low, and the merge.  The function is       *)
(* async; one action runs it from one await to the next.                   *)
(***************************************************************************)
LOW_COUNT == 10

\* the bodies the page may have: VENUE_LINES[s] .. VENUE_LINES[s + n - 1]
\* for s = 1, 2 and n = 0 .. MaxVenues
PAGE_BODIES ==
  [b \in 1..(2 * (MaxVenues + 1)) |->
     LET s == ((b - 1) % 2) + 1
         n == (b - 1) \div 2
     IN  JoinLines(VENUE_LINES, s, s + n - 1)]

\* if (theatres.length <= 10)
lowTheatreCountInclusive(theatres) == Len(theatres) <= LOW_COUNT

\* if (theatres.length < 10)
lowTheatreCount(theatres) == Len(theatres) < LOW_COUNT

\* exists, testing existing.includes(new) only
theatreExistsOneWay(allTheatres, newTheatre) ==
  \E i \in 1..Len(allTheatres) :
    includes(toLowerCase(allTheatres[i].theatre), toLowerCase(newTheatre.theatre))

\* const exists = allTheatres.some((existing) => ...)
theatreExists(allTheatres, newTheatre) ==
  \E i \in 1..Len(allTheatres) :
    \/ includes(toLowerCase(allTheatres[i].theatre), toLowerCase(newTheatre.theatre))
    \/ includes(toLowerCase(newTheatre.theatre), toLowerCase(allTheatres[i].theatre))

\* newTheatres.forEach: push each one for which exists is false
RECURSIVE MergeFrom(_, _, _)
MergeFrom(allTheatres, newTheatres, i) ==
  IF i > Len(newTheatres) THEN allTheatres
  ELSE TheOne({MergeFrom(next, newTheatres, i + 1) :
                 next \in {IF theatreExists(allTheatres, newTheatres[i])
                           THEN allTheatres
                           ELSE Append(allTheatres, newTheatres[i])}})

mergeTheatres(allTheatres, newTheatres) == MergeFrom(allTheatres, newTheatres, 1)

\* analyzeMoviePage(url) up to the first page.evaluate
AnalyzeMoviePage ==
  /\ page.pc = "idle"
  /\ page' = [page EXCEPT !.pc = "pageData"]
  /\ UNCHANGED <<timeRegexLastIndex, call, monitorVars>>

\* page.evaluate resolves with bodyText = PAGE_BODIES[b]: the primary
\* extraction, the match of the whole text, which leaves lastIndex 0, and
\* the test of the count; then the second page.evaluate, or the return.
PageData(b) ==
  /\ page.pc = "pageData"
  /\ \E theatres \in {extractTheatresAndShowtimes(PAGE_BODIES[b],
                                                  timeRegexLastIndex).theatres} :
       page' = [page EXCEPT
                  !.pc = IF lowTheatreCount(theatres)
                         THEN "additionalContent" ELSE "returned",
                  !.bodyText = PAGE_BODIES[b],
                  !.primaryTheatres = theatres,
                  !.theatres = theatres]
  /\ timeRegexLastIndex' = 0
  /\ UNCHANGED <<call, monitorVars>>

\* the second page.evaluate resolves with the page text and EXTRA_LINES[e]:
\* both extractions of additionalContent, the two merges, the return
AdditionalContent(e) ==
  /\ page.pc = "additionalContent"
  /\ \E additionalContent \in
          {page.bodyText \o JoinLines(EXTRA_LINES[e], 1, Len(EXTRA_LINES[e]))} :
       \E additional \in
            {extractTheatresAndShowtimes(additionalContent, timeRegexLastIndex)} :
         \E alternative \in
              {extractTheatresAlternative(additionalContent, additional.lastIndex)} :
           /\ page' = [page EXCEPT
                         !.pc = "returned",
                         !.additionalContent = additionalContent,
                         !.additionalTheatres = additional.theatres,
                         !.alternativeTheatres = alternative.theatres,
                         !.theatres = mergeTheatres(
                                        mergeTheatres(page.theatres,
                                                      additional.theatres),
                                        alternative.theatres),
                         !.fallback = TRUE]
           /\ timeRegexLastIndex' = alternative.lastIndex
  /\ UNCHANGED <<call, monitorVars>>

\* a page.evaluate rejects: nothing catches the error, finally closes the
\* browser and the promise of analyzeMoviePage rejects
EvaluateRejects ==
  /\ page.pc \in {"pageData", "additionalContent"}
  /\ page' = [page EXCEPT !.pc = "thrown"]
  /\ UNCHANGED <<timeRegexLastIndex, call, monitorVars>>

NextPage ==
  \/ AnalyzeMoviePage
  \/ \E b \in 1..Len(PAGE_BODIES) : PageData(b)
  \/ \E e \in 1..Len(EXTRA_LINES) : AdditionalContent(e)
  \/ EvaluateRejects

SpecPage == Init /\ [][NextPage]_vars

(***************************************************************************)
(* Monitoring: smartScraper with its processMovie, monitorAllMovies with   *)
(* its processAllMovies, and the browser that analyzeMoviePage opens and   *)
(* closes.  An await is a step that resolves or rejects; proc.pc is the    *)
(* position of the running execution, "idle" when none runs.               *)
(***************************************************************************)
\* smartScraper(movieUrl, runOnce) or monitorAllMovies(movies, runOnce) at
\* its last statement, the call of processMovie or processAllMovies
InitMonitor ==
  /\ timeRegexLastIndex = 0
  /\ call = NoCall
  /\ page = NoPage
  /\ proc \in {[NoProcess EXCEPT !.entry = e, !.runOnce = r, !.pc = "called"] :
                 e \in ENTRIES, r \in BOOLEAN}
  /\ timers = 0
  /\ lastStatus = NoMovieData.currentStatus
  /\ lastStatuses = NoCycle.start
  /\ browsers = 0
  /\ sent = NoNotification
  /\ cycle = NoCycle

\* lastStatus && lastStatus.currentStatus !== movieData.currentStatus
isStatusChange(last, movieData) ==
  last # NoMovieData.currentStatus /\ last # movieData.currentStatus

\* the condition without the test of theatres.length
shouldNotifyAnyCount(last, movieData) ==
  \/ isStatusChange(last, movieData)
  \/ last = NoMovieData.currentStatus
  \/ movieData.currentStatus = "BOOKING_AVAILABLE"

\* movieData.theatres.length > 0 && (isStatusChange || !lastStatus ||
\* movieData.currentStatus === "BOOKING_AVAILABLE")
shouldNotify(last, movieData) ==
  /\ Len(movieData.theatres) > 0
  /\ \/ isStatusChange(last, movieData)
     \/ last = NoMovieData.currentStatus
     \/ movieData.currentStatus = "BOOKING_AVAILABLE"

\* the currentStatus the running execution compares with
lastOf(p) ==
  IF p.entry = "smartScraper" THEN lastStatus
  ELSE lastStatuses[p.index].currentStatus

\* the error handler that never calls setTimeout
retryTimersNever(runOnce, pending) == pending

\* if (!runOnce) setTimeout(process, 10 * 60 * 1000)
retryTimers(runOnce, pending) == IF runOnce THEN pending ELSE pending + 1

\* if (!runOnce) setTimeout(process, interval)
nextTimers(runOnce, pending) == IF runOnce THEN pending ELSE pending + 1

\* a timer set by setTimeout(processMovie, ...) or
\* setTimeout(processAllMovies, ...) expires
TimerFires ==
  /\ proc.pc = "idle"
  /\ timers > 0
  /\ proc.cycles < MaxCycles
  /\ timers' = timers - 1
  /\ proc' = [proc EXCEPT !.pc = "called"]
  /\ UNCHANGED <<timeRegexLastIndex, call, page, lastStatus, lastStatuses,
                 browsers, sent, cycle>>

\* processMovie or processAllMovies is entered: up to the call of
\* analyzeMoviePage, for the first movie
ProcessBegins ==
  /\ proc.pc = "called"
  /\ proc' = [proc EXCEPT !.pc = "launch", !.index = 1, !.scheduled = 0,
                          !.cycles = @ + 1, !.ended = "none",
                          !.movieData = NoMovieData, !.rejected = FALSE]
  /\ cycle' = [start |-> lastStatuses,
               outcome |-> [NoCycle.outcome EXCEPT ![1] = "checking"]]
  /\ UNCHANGED <<timeRegexLastIndex, call, page, timers, lastStatus,
                 lastStatuses, browsers, sent>>

\* createBrowser: await puppeteer.launch(BROWSER_CONFIG)
Launch(ok) ==
  /\ proc.pc = "launch"
  /\ proc' = [proc EXCEPT !.pc = IF ok THEN "newPage" ELSE "catch"]
  /\ browsers' = IF ok THEN browsers + 1 ELSE browsers
  /\ UNCHANGED <<timeRegexLastIndex, call, page, timers, lastStatus,
                 lastStatuses, sent, cycle>>

\* createBrowser: browser.newPage, page.setUserAgent, page.setViewport; a
\* rejection leaves createBrowser and analyzeMoviePage, whose try it precedes
NewPage(ok) ==
  /\ proc.pc = "newPage"
  /\ proc' = [proc EXCEPT !.pc = IF ok THEN "goto" ELSE "catch"]
  /\ UNCHANGED <<timeRegexLastIndex, call, page, timers, lastStatus,
                 lastStatuses, browsers, sent, cycle>>

\* page.goto, and the second page.goto when the first rejects
Goto(ok) ==
  /\ proc.pc = "goto"
  /\ proc' = [proc EXCEPT !.pc = IF ok THEN "evaluate" ELSE "finally",
                          !.rejected = ~ok]
  /\ UNCHANGED <<timeRegexLastIndex, call, page, timers, lastStatus,
                 lastStatuses, browsers, sent, cycle>>

\* the rest of the try block: page.title, the page.evaluate calls, the
\* extraction, the status; return result
Evaluate(ok, result) ==
  /\ proc.pc = "evaluate"
  /\ proc' = [proc EXCEPT !.pc = "finally", !.rejected = ~ok,
                          !.movieData = IF ok THEN result ELSE @]
  /\ UNCHANGED <<timeRegexLastIndex, call, page, timers, lastStatus,
                 lastStatuses, browsers, sent, cycle>>

\* finally { await browser.close(); }, then the return or the rethrow
BrowserClose ==
  /\ proc.pc = "finally"
  /\ browsers' = browsers - 1
  /\ proc' = [proc EXCEPT !.pc = IF proc.rejected THEN "catch" ELSE "returned"]
  /\ UNCHANGED <<timeRegexLastIndex, call, page, timers, lastStatus,
                 lastStatuses, sent, cycle>>

\* after analyzeMoviePage resolved: isStatusChange and the test that
\* guards sendTelegramNotification
CheckStatus ==
  /\ proc.pc = "returned"
  /\ proc' = [proc EXCEPT !.pc = IF shouldNotify(lastOf(proc), proc.movieData)
                                 THEN "notify" ELSE "update"]
  /\ UNCHANGED <<timeRegexLastIndex, call, page, timers, lastStatus,
                 lastStatuses, browsers, sent, cycle>>

\* await sendTelegramNotification(movieData, isStatusChange): it rethrows
\* what axios.post or the test of response.data.ok throws
SendTelegramNotification(ok) ==
  /\ proc.pc = "notify"
  /\ sent' = [handler |-> "try", movieData |-> proc.movieData,
              isStatusChange |-> isStatusChange(lastOf(proc), proc.movieData)]
  /\ proc' = [proc EXCEPT !.pc = IF ok THEN "update" ELSE "catch"]
  /\ UNCHANGED <<timeRegexLastIndex, call, page, timers, lastStatus,
                 lastStatuses, browsers, cycle>>

\* smartScraper: lastStatus.currentStatus = movieData.currentStatus
SetLastStatus ==
  /\ proc.pc = "update"
  /\ proc.entry = "smartScraper"
  /\ lastStatus' = proc.movieData.currentStatus
  /\ proc' = [proc EXCEPT !.pc = "schedule"]
  /\ UNCHANGED <<timeRegexLastIndex, call, page, timers, lastStatuses,
                 browsers, sent, cycle>>

\* monitorAllMovies: lastStatuses.set(movie.url, movieData), and the wait
\* of RETRY_DELAY when a movie follows
SetLastStatuses ==
  /\ proc.pc = "update"
  /\ proc.entry = "monitorAllMovies"
  /\ lastStatuses' = [lastStatuses EXCEPT ![proc.index] = proc.movieData]
  /\ cycle' = [cycle EXCEPT !.outcome[proc.index] = "completed"]
  /\ proc' = [proc EXCEPT !.pc = "next"]
  /\ UNCHANGED <<timeRegexLastIndex, call, page, timers, lastStatus,
                 browsers, sent>>

\* the error of one movie ends the cycle
CatchMovieErrorEndsCycle ==
  /\ proc.pc = "catch"
  /\ proc.entry = "monitorAllMovies"
  /\ cycle' = [cycle EXCEPT !.outcome[proc.index] = "failed"]
  /\ proc' = [proc EXCEPT !.pc = "schedule"]
  /\ UNCHANGED <<timeRegexLastIndex, call, page, timers, lastStatus,
                 lastStatuses, browsers, sent>>

\* monitorAllMovies: the catch inside the loop, which logs the error
CatchMovieError ==
  /\ proc.pc = "catch"
  /\ proc.entry = "monitorAllMovies"
  /\ cycle' = [cycle EXCEPT !.outcome[proc.index] = "failed"]
  /\ proc' = [proc EXCEPT !.pc = "next"]
  /\ UNCHANGED <<timeRegexLastIndex, call, page, timers, lastStatus,
                 lastStatuses, browsers, sent>>

\* monitorAllMovies: i++ and the test i < movies.length
NextMovie ==
  /\ proc.pc = "next"
  /\ IF proc.index < Len(HARDCODED_MOVIES)
     THEN /\ proc' = [proc EXCEPT !.pc = "launch", !.index = @ + 1,
                                  !.rejected = FALSE]
          /\ cycle' = [cycle EXCEPT !.outcome[proc.index + 1] = "checking"]
     ELSE /\ proc' = [proc EXCEPT !.pc = "schedule"]
          /\ cycle' = cycle
  /\ UNCHANGED <<timeRegexLastIndex, call, page, timers, lastStatus,
                 lastStatuses, browsers, sent>>

\* the end of the try block: if (!runOnce) setTimeout(process, interval)
ScheduleNext ==
  /\ proc.pc = "schedule"
  /\ timers' = nextTimers(proc.runOnce, timers)
  /\ proc' = [proc EXCEPT !.pc = "idle", !.ended = "try",
                          !.scheduled = nextTimers(proc.runOnce, @)]
  /\ UNCHANGED <<timeRegexLastIndex, call, page, lastStatus, lastStatuses,
                 browsers, sent, cycle>>

\* smartScraper: the catch of processMovie sends the error notification,
\* and catches its failure
SendErrorNotification(ok) ==
  /\ proc.pc = "catch"
  /\ proc.entry = "smartScraper"
  /\ sent' = [handler |-> "catch", movieData |-> ErrorData,
              isStatusChange |-> TRUE]
  /\ proc' = [proc EXCEPT !.pc = "retry"]
  /\ UNCHANGED <<timeRegexLastIndex, call, page, timers, lastStatus,
                 lastStatuses, browsers, cycle>>

\* smartScraper: the end of the catch block
ScheduleRetry ==
  /\ proc.pc = "retry"
  /\ timers' = retryTimers(proc.runOnce, timers)
  /\ proc' = [proc EXCEPT !.pc = "idle", !.ended = "catch",
                          !.scheduled = retryTimers(proc.runOnce, @)]
  /\ UNCHANGED <<timeRegexLastIndex, call, page, lastStatus, lastStatuses,
                 browsers, sent, cycle>>

NextMonitor ==
  \/ TimerFires
  \/ ProcessBegins
  \/ \E ok \in BOOLEAN : Launch(ok)
  \/ \E ok \in BOOLEAN : NewPage(ok)
  \/ \E ok \in BOOLEAN : Goto(ok)
  \/ \E ok \in BOOLEAN : \E result \in MOVIE_DATA : Evaluate(ok, result)
  \/ BrowserClose
  \/ CheckStatus
  \/ \E ok \in BOOLEAN : SendTelegramNotification(ok)
  \/ SetLastStatus
  \/ SetLastStatuses
  \/ CatchMovieError
  \/ NextMovie
  \/ ScheduleNext
  \/ \E ok \in BOOLEAN : SendErrorNotification(ok)
  \/ ScheduleRetry

SpecMonitor == InitMonitor /\ [][NextMonitor]_vars

(***************************************************************************)
(* Properties of the extraction engine, stated on the latest call.         *)
(***************************************************************************)
Range(f) == {f[i] : i \in 1..Len(f)}

\* the lines of the latest call's text, as the engine splits it
CallLines == splitLines(call.text)

\* what the second pass extracts for a candidate: its window and its line
CandidateTimes(candidate) ==
  uniq(extractShowtimes(CallLines, candidate.index, 15)
       \o matchTimes(candidate.originalLine))

\* the name the second pass gives a candidate
CandidateName(candidate) ==
  improveTheatreName(CallLines, candidate.index, candidate.name)

\* whether line index of the text was claimed in the first pass
Claimed(index) ==
  \E c \in 1..Len(call.theatreCandidates) : call.theatreCandidates[c].index = index

\* every line that yields a name and a non-empty list of times, as
\* [key, times]: the candidates of the second pass that have times, and
\* the lines the third pass named
Contributors ==
  {[key   |-> normalizedKey(CandidateName(call.theatreCandidates[c])),
    times |-> Range(CandidateTimes(call.theatreCandidates[c]))] :
     c \in {c \in 1..Len(call.theatreCandidates) :
              CandidateTimes(call.theatreCandidates[c]) # <<>>}}
  \cup
  {[key   |-> normalizedKey(call.thirdPassNamed[n].name),
    times |-> Range(call.thirdPassNamed[n].showtimes)] :
     n \in 1..Len(call.thirdPassNamed)}

\* the keys of the records the second pass stores
SecondPassKeys ==
  {normalizedKey(CandidateName(call.theatreCandidates[c])) :
     c \in {c \in 1..Len(call.theatreCandidates) :
              CandidateTimes(call.theatreCandidates[c]) # <<>>}}

\* the keys of the lines the third pass named
ThirdPassKeys ==
  {normalizedKey(call.thirdPassNamed[n].name) : n \in 1..Len(call.thirdPassNamed)}

\* C1: two calls of extractTheatresAndShowtimes on the same text, made one
\* right after the other, return equal record lists.
C1_Idempotent ==
  [][(/\ call.fn = "primary"
      /\ call'.fn = "primary"
      /\ call'.text = call.text) => call'.theatres = call.theatres]_vars

\* C2: for every key that some line's name normalizes to, the list returned
\* by extractTheatresAndShowtimes holds exactly one record with that key,
\* and its showtimes are the union of the times of all lines with that key.
C2_KeyMerge ==
  call.fn = "primary" =>
    \A g \in Contributors :
      LET records == {p \in 1..Len(call.theatres) :
                        normalizedKey(call.theatres[p].theatre) = g.key}
      IN  /\ Cardinality(records) = 1
          /\ \A p \in records :
               Range(call.theatres[p].showtimes)
                 = UNION {h.times : h \in {h \in Contributors : h.key = g.key}}

\* C3: every record returned by extractTheatresAndShowtimes and by
\* extractTheatresAlternative has at least one showtime, and the primary
\* list has no more records than lines that yielded a time token.
C3_NoEmptyShowtimes ==
  /\ \A p \in 1..Len(call.theatres) : call.theatres[p].showtimes # <<>>
  /\ call.fn = "primary" =>
       Len(call.theatres)
         <= Cardinality({c \in 1..Len(call.theatreCandidates) :
                           CandidateTimes(call.theatreCandidates[c]) # <<>>})
            + Cardinality({i \in 1..Len(CallLines) :
                             ~Claimed(i) /\ matchTimes(trim(CallLines[i])) # <<>>})

\* a candidate of the latest primary call had no time token in its window
\* and the call returned no record
C3_Witness ==
  /\ call.fn = "primary"
  /\ \E c \in 1..Len(call.theatreCandidates) :
       CandidateTimes(call.theatreCandidates[c]) = <<>>
  /\ call.theatres = <<>>

\* C4: no record returned by extractTheatresAndShowtimes holds the same
\* time string twice.
C4_NoDuplicateTimes ==
  call.fn = "primary" =>
    \A p \in 1..Len(call.theatres) :
      \A i, j \in 1..Len(call.theatres[p].showtimes) :
        call.theatres[p].showtimes[i] = call.theatres[p].showtimes[j] => i = j

\* the same venue line occurs twice in the text, both occurrences were
\* claimed, and one record holds their times
C4_Witness ==
  /\ call.fn = "primary"
  /\ \E c, d \in 1..Len(call.theatreCandidates) :
       /\ c < d
       /\ call.theatreCandidates[c].originalLine
            = call.theatreCandidates[d].originalLine
       /\ Len(matchTimes(call.theatreCandidates[c].originalLine)) > 1
  /\ Len(call.theatres) = 1
  /\ Len(call.theatres[1].showtimes) > 1

\* C5: a line that matches an entry of EXCLUDE_PATTERNS becomes a candidate
\* only through a structural pattern, never through isTheatreLine.
C5_ExclusionPrecedence ==
  call.fn = "primary" =>
    \A c \in 1..Len(call.theatreCandidates) :
      matchesExcludePattern(call.theatreCandidates[c].originalLine)
        => matchTheatrePattern(call.theatreCandidates[c].originalLine).matched

\* a line with a keyword and a separator, of an accepted length, without
\* "http" or "Select", that matches an exclusion pattern and no structural
\* pattern, was not claimed
C5_Witness ==
  /\ call.fn = "primary"
  /\ \E i \in 1..Len(CallLines) :
       LET line == trim(CallLines[i])
       IN  /\ hasTheatreKeyword(line)
           /\ lineHasSeparator(line)
           /\ Len(line) > 5
           /\ Len(line) < 200
           /\ ~includes(line, "http")
           /\ ~includes(line, "Select")
           /\ ~AllDigits(line)
           /\ matchesExcludePattern(line)
           /\ ~matchTheatrePattern(line).matched
           /\ ~Claimed(i)

\* C6: for the two lines "ABC Multiplex - 11:15 am" and
\* "ABC Multiplex Hyderabad: 11:15 am, 4:45 pm" extractTheatresAndShowtimes
\* returns exactly one record, with both times, named by the longer label.
C6_ScenarioTwo ==
  (/\ call.fn = "primary"
   /\ call.text = "ABC Multiplex - 11:15 am\nABC Multiplex Hyderabad: 11:15 am, 4:45 pm\n")
  => /\ Len(call.theatres) = 1
     /\ {"11:15 am", "4:45 pm"} \subseteq Range(call.theatres[1].showtimes)
     /\ includes(call.theatres[1].theatre, "ABC Multiplex Hyderabad")

\* C7: no record returned by extractTheatresAndShowtimes is named by digits
\* only or by a string that holds "http".
C7_NoDigitOrUrlNames ==
  call.fn = "primary" =>
    \A p \in 1..Len(call.theatres) :
      /\ ~AllDigits(call.theatres[p].theatre)
      /\ ~includes(call.theatres[p].theatre, "http")

\* C8: for every line claimed in the first pass that carries a time token,
\* some returned record's showtimes include every time token of the line.
C8_InlineTimesKept ==
  call.fn = "primary" =>
    \A c \in 1..Len(call.theatreCandidates) :
      matchTimes(call.theatreCandidates[c].originalLine) # <<>> =>
        \E p \in 1..Len(call.theatres) :
          Range(matchTimes(call.theatreCandidates[c].originalLine))
            \subseteq Range(call.theatres[p].showtimes)

\* the line "PVR Cinema: 10:00 AM, 2:30 PM, 6:00 PM" was claimed and a
\* record holds its three times
C8_Witness ==
  /\ call.fn = "primary"
  /\ \E c \in 1..Len(call.theatreCandidates) :
       call.theatreCandidates[c].originalLine
         = "PVR Cinema: 10:00 AM, 2:30 PM, 6:00 PM"
  /\ \E p \in 1..Len(call.theatres) :
       {"10:00 AM", "2:30 PM", "6:00 PM"} \subseteq Range(call.theatres[p].showtimes)

\* C12, as stated: when the second pass left 10 or more records, the third
\* pass adds none.
C12_ThirdPassOnlyWhenLow ==
  (call.fn = "primary" /\ Cardinality(SecondPassKeys) >= 10) =>
    Len(call.theatres) = Cardinality(SecondPassKeys)

\* C12, amended: the third pass runs whatever the second pass left; every
\* line it names has a record under its key, and the records are those of
\* the keys of the second pass and of the third.
C12_ThirdPassUnconditional ==
  call.fn = "primary" =>
    /\ \A k \in ThirdPassKeys :
         \E p \in 1..Len(call.theatres) :
           normalizedKey(call.theatres[p].theatre) = k
    /\ Len(call.theatres) = Cardinality(SecondPassKeys \cup ThirdPassKeys)

\* the second pass left ten records and the third pass added one
C12_Witness ==
  /\ call.fn = "primary"
  /\ Cardinality(SecondPassKeys) = 10
  /\ Len(call.theatres) = 11
  /\ \E p \in 1..Len(call.theatres) : call.theatres[p].theatre = "Select Sandhya"

\* the part of a line before its first time token, trimmed
TimePrefix(line) ==
  trim(Sub(line, 1, indexOf(line, matchTimes(line)[1]) - 1))

\* whether the line, taken alone, meets the conditions of the third pass
ThirdPassAccepts(line) ==
  /\ hasTheatreKeyword(line)
  /\ matchTimes(line) # <<>>
  /\ Len(line) > 10
  /\ Len(line) < 150
  /\ Len(TimePrefix(line)) > 3

\* C13: every line not claimed in the first pass that meets the conditions
\* of the third pass has a record under the key of its prefix, whatever
\* lines precede it.
C13_ThirdPassLineOnly ==
  call.fn = "primary" =>
    \A i \in 1..Len(CallLines) :
      (~Claimed(i) /\ ThirdPassAccepts(trim(CallLines[i]))) =>
        \E p \in 1..Len(call.theatres) :
          normalizedKey(call.theatres[p].theatre)
            = normalizedKey(TimePrefix(trim(CallLines[i])))

\* the candidates the second pass stores under key k, in generation order
CandidatesOfKey(k) ==
  {c \in 1..Len(call.theatreCandidates) :
     /\ CandidateTimes(call.theatreCandidates[c]) # <<>>
     /\ normalizedKey(CandidateName(call.theatreCandidates[c])) = k}

\* the earliest candidate of key k among those with the longest name
FirstLongest(k) ==
  CHOOSE c \in CandidatesOfKey(k) :
    \A d \in CandidatesOfKey(k) :
      \/ Len(CandidateName(call.theatreCandidates[d]))
           < Len(CandidateName(call.theatreCandidates[c]))
      \/ /\ Len(CandidateName(call.theatreCandidates[d]))
              = Len(CandidateName(call.theatreCandidates[c]))
         /\ c <= d

\* C14: the name stored for a key is the earliest-arrived name among the
\* longest names of the candidates with that key.
C14_FirstLongestName ==
  call.fn = "primary" =>
    \A k \in SecondPassKeys :
      \E p \in 1..Len(call.theatres) :
        /\ normalizedKey(call.theatres[p].theatre) = k
        /\ call.theatres[p].theatre
             = CandidateName(call.theatreCandidates[FirstLongest(k)])

\* two candidates with one key and different names of one length: the
\* record keeps the name of the first
C14_Witness ==
  /\ call.fn = "primary"
  /\ \E k \in SecondPassKeys : \E c, d \in CandidatesOfKey(k) :
       /\ c < d
       /\ CandidateName(call.theatreCandidates[c])
            # CandidateName(call.theatreCandidates[d])
       /\ Len(CandidateName(call.theatreCandidates[c]))
            = Len(CandidateName(call.theatreCandidates[d]))
       /\ \E p \in 1..Len(call.theatres) :
            call.theatres[p].theatre = CandidateName(call.theatreCandidates[c])

\* the keys the first loop of extractTheatresAlternative stores
FirstLoopKeys ==
  {normalizedKey(cleanTheatreName(TimePrefix(trim(CallLines[i])))) :
     i \in {i \in 1..Len(CallLines) :
              /\ Len(trim(CallLines[i])) >= 8
              /\ Len(trim(CallLines[i])) <= 300
              /\ \/ hasTheatreKeyword(trim(CallLines[i]))
                 \/ hasSpecificTheatre(toLowerCase(trim(CallLines[i])))
              /\ matchTimes(trim(CallLines[i])) # <<>>
              /\ indexOf(trim(CallLines[i]), matchTimes(trim(CallLines[i]))[1]) > 1
              /\ Len(cleanTheatreName(TimePrefix(trim(CallLines[i])))) > 3
              /\ Len(cleanTheatreName(TimePrefix(trim(CallLines[i])))) < 100}}

\* the key of the record the target-venue sub-pass makes for line i
TargetKey(i) == normalizedKey(cleanTheatreName(trim(CallLines[i])))

\* the lines the target-venue sub-pass can name a record after: a target
\* venue, a name of 4 to 99 characters, a key that neither the first loop
\* nor an earlier target line has
TargetLines ==
  {i \in 1..Len(CallLines) :
     /\ namesTargetVenue(trim(CallLines[i]))
     /\ Len(cleanTheatreName(trim(CallLines[i]))) > 3
     /\ Len(cleanTheatreName(trim(CallLines[i]))) < 100
     /\ TargetKey(i) \notin FirstLoopKeys
     /\ \A j \in 1..(i - 1) :
          namesTargetVenue(trim(CallLines[j])) => TargetKey(j) # TargetKey(i)}

\* the time tokens of the lines from back lines before line i to forward
\* lines after it
TimesAround(i, back, forward) ==
  UNION {Range(matchTimes(CallLines[j])) :
           j \in Max(1, i - back)..Min(Len(CallLines), i + forward)}

\* the records of the latest call whose name has the key k
RecordsOfKey(k) ==
  {p \in 1..Len(call.theatres) : normalizedKey(call.theatres[p].theatre) = k}

Related(a, b) ==
  \/ includes(toLowerCase(a), toLowerCase(b))
  \/ includes(toLowerCase(b), toLowerCase(a))

\* the supplementary records, in the order the merge reads them
Supplementary == page.additionalTheatres \o page.alternativeTheatres

\* C9: the supplementary extraction runs exactly when the primary
\* extraction returned fewer than 10 records, and with 10 or more the
\* returned list is the primary list.
C9_FallbackThreshold ==
  /\ page.pc = "additionalContent" => Len(page.primaryTheatres) < 10
  /\ page.pc = "returned" =>
       /\ page.fallback <=> Len(page.primaryTheatres) < 10
       /\ ~page.fallback =>
            /\ page.theatres = page.primaryTheatres
            /\ page.additionalTheatres = <<>>
            /\ page.alternativeTheatres = <<>>

\* the primary extraction returned exactly 10 records and the page run
\* returned them without the supplementary extraction
C9_Witness ==
  /\ page.pc = "returned"
  /\ Len(page.primaryTheatres) = 10
  /\ ~page.fallback
  /\ page.theatres = page.primaryTheatres

\* C10: after the merge the primary records stand unchanged at the head of
\* the list; every record after them is a supplementary record whose name
\* neither holds nor is held by the name of any record before it, ignoring
\* case; every other supplementary record is related to a record of the
\* list and is absent from it.
C10_MergePolicy ==
  (page.pc = "returned" /\ page.fallback) =>
    /\ Len(page.theatres) >= Len(page.primaryTheatres)
    /\ SubSeq(page.theatres, 1, Len(page.primaryTheatres)) = page.primaryTheatres
    /\ \A j \in (Len(page.primaryTheatres) + 1)..Len(page.theatres) :
         /\ page.theatres[j] \in Range(Supplementary)
         /\ \A i \in 1..(j - 1) :
              ~Related(page.theatres[i].theatre, page.theatres[j].theatre)
    /\ \A s \in 1..Len(Supplementary) :
         \/ \E j \in (Len(page.primaryTheatres) + 1)..Len(page.theatres) :
              page.theatres[j] = Supplementary[s]
         \/ \E i \in 1..Len(page.theatres) :
              Related(page.theatres[i].theatre, Supplementary[s].theatre)

\* a merge appended one supplementary record and dropped another that is
\* related to a primary record and carries a time that record lacks; the
\* primary record is unchanged
C10_Witness ==
  /\ page.pc = "returned"
  /\ page.fallback
  /\ Len(page.theatres) > Len(page.primaryTheatres)
  /\ \E s \in 1..Len(Supplementary) : \E i \in 1..Len(page.primaryTheatres) :
       /\ Related(page.theatres[i].theatre, Supplementary[s].theatre)
       /\ ~(Range(Supplementary[s].showtimes)
              \subseteq Range(page.theatres[i].showtimes))
       /\ page.theatres[i] = page.primaryTheatres[i]

\* C21: the list that analyzeMoviePage returns holds no two records whose
\* names normalize to the same key, with or without the supplementary
\* merge.
C21_NoDuplicateKeys ==
  page.pc = "returned" =>
    \A i \in 1..Len(page.theatres) : \A j \in 1..Len(page.theatres) :
      normalizedKey(page.theatres[i].theatre) = normalizedKey(page.theatres[j].theatre)
        => i = j

(***************************************************************************)
(* Properties of the direct calls.                                         *)
(***************************************************************************)
\* the conditions every reading of isTheatreLine shares: the length, the
\* two forbidden words, the digits, the exclusion patterns
PassesLineFilters(line) ==
  /\ Len(line) > 5
  /\ Len(line) < 200
  /\ ~includes(line, "http")
  /\ ~includes(line, "Select")
  /\ ~AllDigits(line)
  /\ ~matchesExcludePattern(line)

\* a curated keyword, the screen-format pattern or a colon pattern
VenueSignal(line) ==
  \/ hasTheatreKeyword(line)
  \/ matchesScreenFormat(line)
  \/ matchesVenueColon(line)
  \/ matchesColonLocality(line)

\* a colon, a comma, a dash separator, a locality name, a film gauge or a
\* time token anywhere in the line
SeparatorSignal(line) ==
  \/ includes(line, ":")
  \/ includes(line, ",")
  \/ includes(line, " - ")
  \/ hasLocation(line)
  \/ matchesFilmGauge(line)
  \/ MatchTimesFrom(line, 1) # <<>>

\* C11, as stated: isTheatreLine is true exactly when the line passes the
\* filters and shows at least one signal of either kind.
C11_AnySignal ==
  call.fn = "isTheatreLine" =>
    (call.result <=>
       /\ PassesLineFilters(call.text)
       /\ \/ VenueSignal(call.text)
          \/ includes(call.text, ":")
          \/ includes(call.text, ",")
          \/ includes(call.text, " - ")
          \/ hasLocation(call.text)
          \/ MatchTimesFrom(call.text, 1) # <<>>)

\* C11, amended: isTheatreLine is true exactly when the line passes the
\* filters, shows a venue signal and shows a separator signal, whatever
\* lastIndex was when it was called.
C11_BothSignals ==
  call.fn = "isTheatreLine" =>
    (call.result <=>
       /\ PassesLineFilters(call.text)
       /\ VenueSignal(call.text)
       /\ SeparatorSignal(call.text))

\* isTheatreLine accepted a line whose only separator signal is its film
\* gauge
C11_Witness ==
  /\ call.fn = "isTheatreLine"
  /\ call.text = "Sudarshan 35mm Deluxe"
  /\ call.result

\* the lines of the text of the latest call of extractShowtimes
ShowtimeLines == splitLines(call.text)

\* the 0-based indices extractShowtimes(lines, c, r) reads: the window
\* [max(0, c - 5), min(c + r, length)), line c, and the lines
\* c + 1 .. min(c + 8, length) - 1 that are not skipped
IndicesRead(lines, c, r) ==
  {i \in 0..(Len(lines) - 1) :
     \/ Max(0, c - 5) <= i /\ i < Min(c + r, Len(lines))
     \/ i = c
     \/ /\ c + 1 <= i
        /\ i <= Min(c + 8, Len(lines)) - 1
        /\ Len(lines[i + 1]) <= 50
        /\ ~includes(lines[i + 1], "http")
        /\ ~includes(lines[i + 1], "Select")}

C17_OnlyWithTheatres ==
  sent.handler # "none" => Len(sent.movieData.theatres) > 0

\* C17, amended: a call of sendTelegramNotification from the try block of
\* processMovie or of processAllMovies has a non-empty theatres list; the
\* only call from an error handler is the error notification of
\* processMovie, whose theatres list is empty.
C17_TheatresOrErrorNotice ==
  /\ sent.handler = "try" => Len(sent.movieData.theatres) > 0
  /\ sent.handler = "catch" =>
       /\ proc.entry = "smartScraper"
       /\ sent.movieData = ErrorData

\* processMovie failed and sent the error notification, after an earlier
\* execution
C17_Witness ==
  /\ sent.handler = "catch"
  /\ proc.pc = "idle"
  /\ proc.ended = "catch"
  /\ proc.cycles > 1

\* the executions that run: one or none
Running == IF proc.pc = "idle" THEN 0 ELSE 1

\* C18: with runOnce false there is always exactly one execution running
\* or one timer pending, never both and never two, so that a later
\* execution is always due; with runOnce true no timer is ever set; an
\* execution that has ended, in its try block or in its error handler,
\* has called setTimeout once with runOnce false and never with runOnce
\* true.
C18_OneLaterExecution ==
  /\ proc.runOnce => timers = 0
  /\ ~proc.runOnce => timers + Running = 1
  /\ (proc.pc = "idle" /\ proc.ended # "none") =>
       proc.scheduled = IF proc.runOnce THEN 0 ELSE 1

\* an execution started by a timer ended in the error handler and left one
\* timer pending
C18_Witness ==
  /\ ~proc.runOnce
  /\ proc.pc = "idle"
  /\ proc.ended = "catch"
  /\ proc.cycles > 1
  /\ timers = 1

\* the positions inside analyzeMoviePage
InAnalyzeMoviePage ==
  proc.pc \in {"launch", "newPage", "goto", "evaluate", "finally"}

\* C19: when analyzeMoviePage has returned or thrown, no browser that was
\* launched is open.
C19_BrowserClosed ==
  ~InAnalyzeMoviePage => browsers = 0

\* C20: in monitorAllMovies, a movie whose check failed in this cycle has
\* the lastStatuses entry it had when the cycle began; an entry differs
\* from the one at the start of the cycle only when the check of its movie
\* got past the notification without error; and when the loop is over
\* every movie was checked, whatever failed before it.
C20_ErrorLeavesStatus ==
  proc.entry = "monitorAllMovies" =>
    \A m \in 1..Len(HARDCODED_MOVIES) :
      /\ cycle.outcome[m] = "failed" => lastStatuses[m] = cycle.start[m]
      /\ lastStatuses[m] # cycle.start[m] => cycle.outcome[m] = "completed"
      /\ (proc.pc \in {"schedule", "idle"} /\ proc.cycles > 0) =>
           cycle.outcome[m] \in {"completed", "failed"}

\* the check of the first movie failed and left the entry of an earlier
\* cycle, the check of the second movie completed
C20_Witness ==
  /\ proc.entry = "monitorAllMovies"
  /\ proc.pc = "idle"
  /\ cycle.outcome[1] = "failed"
  /\ cycle.outcome[2] = "completed"
  /\ cycle.start[1] # NoMovieData
  /\ lastStatuses[1] = cycle.start[1]
  /\ lastStatuses[2] # cycle.start[2]

====
